---- MODULE Spec2Model ----
(***************************************************************************)
(* PixieQueen (pixiv_pixie/queen.py): a PixivPixie whose download and      *)
(* fetch_and_download run as tasks of a ThreadPoolExecutor.                *)
(***************************************************************************)
EXTENDS Integers, Sequences, FiniteSets, TLC

\* ------------------------------------------------------------------ values
\* An optional argument is a sequence of length 0 (Python's None) or 1.
None == <<>>
Some(x) == <<x>>
Get(o) == o[1]

Min(a, b) == IF a < b THEN a ELSE b

\* ------------------------------------------------------------------ bounds
\* Longest fetched source (besides the five-item scenario source).
MaxLen == 3

\* The illusts A..E of the scenarios, by id.
Illusts == 1..5
ScenarioSource == <<1, 2, 3, 4, 5>>

\* ---------------------------------------------------------------- QuerySet
\* A view is [err, items]: err is TRUE once a stage has raised.
View(items) == [err |-> FALSE, items |-> items]
Raised == [err |-> TRUE, items |-> <<>>]

\* Q objects: predicates over an illust.
Qs == {"isC", "isOdd"}
EvalQ(q, x) == IF q = "isC" THEN x = 3 ELSE x % 2 = 1

\* Sort keys: "id", "-id" (descending) and "group" (ids 1,2 / 3,4 / 5: ties).
OrderKeys == {"id", "-id", "group"}
KeyOf(k, x) == IF k = "id" THEN x ELSE IF k = "-id" THEN 0 - x ELSE (x + 1) \div 2

\* x sorts strictly before y under the keys, compared lexicographically.
RECURSIVE Before(_, _, _)
Before(keys, x, y) ==
    IF keys = <<>> THEN FALSE
    ELSE LET a == KeyOf(keys[1], x)
             b == KeyOf(keys[1], y)
         IN  IF a < b THEN TRUE
             ELSE IF a > b THEN FALSE
             ELSE Before(Tail(keys), x, y)

\* Stable insertion of x into the sorted sequence s: after every element
\* that does not sort strictly after it.
RECURSIVE InsertSorted(_, _, _)
InsertSorted(keys, s, x) ==
    IF s = <<>> THEN <<x>>
    ELSE IF Before(keys, x, s[1]) THEN <<x>> \o s
    ELSE <<s[1]>> \o InsertSorted(keys, Tail(s), x)

RECURSIVE SortBy(_, _)
SortBy(keys, s) ==
    IF s = <<>> THEN <<>>
    ELSE InsertSorted(keys, SortBy(keys, SubSeq(s, 1, Len(s) - 1)), s[Len(s)])

QS_order_by(items, keys) == View(SortBy(keys, items))

QS_limit(items, n) ==
    IF n < 0 THEN Raised ELSE View(SubSeq(items, 1, Min(n, Len(items))))

RECURSIVE Keep(_, _, _)
Keep(items, q, want) ==
    IF items = <<>> THEN <<>>
    ELSE (IF EvalQ(q, items[1]) = want THEN <<items[1]>> ELSE <<>>)
         \o Keep(Tail(items), q, want)

QS_filter(items, q) == View(Keep(items, q, TRUE))

QS_exclude(items, q) == View(Keep(items, q, FALSE))

QS_enumerate(items, start) ==
    [i \in 1..Len(items) |-> <<start + i - 1, items[i]>>]

\* One `if x is not None: qs = qs.stage(x)` statement is skipped when the
\* argument is None, and is not reached once an earlier stage has raised.
Skips(v, arg) == v.err \/ arg = None

\* The pipeline of lines 144-157 over a fetched source.
StagesMutant(src, cfg) ==
    LET s0 == View(src)
        s1 == IF Skips(s0, cfg.order_by) THEN s0
              ELSE QS_order_by(s0.items, Get(cfg.order_by))
        s2 == IF Skips(s1, cfg.filter_q) THEN s1
              ELSE QS_filter(s1.items, Get(cfg.filter_q))
        s3 == IF Skips(s2, cfg.exclude_q) THEN s2
              ELSE QS_exclude(s2.items, Get(cfg.exclude_q))
        s4 == IF Skips(s3, cfg.limit_before) THEN s3
              ELSE QS_limit(s3.items, Get(cfg.limit_before))
    IN  IF Skips(s4, cfg.limit_after) THEN s4
        ELSE QS_limit(s4.items, Get(cfg.limit_after))

Stages(src, cfg) ==
    LET s0 == View(src)
        s1 == IF Skips(s0, cfg.order_by) THEN s0
              ELSE QS_order_by(s0.items, Get(cfg.order_by))
        s2 == IF Skips(s1, cfg.limit_before) THEN s1
              ELSE QS_limit(s1.items, Get(cfg.limit_before))
        s3 == IF Skips(s2, cfg.filter_q) THEN s2
              ELSE QS_filter(s2.items, Get(cfg.filter_q))
        s4 == IF Skips(s3, cfg.exclude_q) THEN s3
              ELSE QS_exclude(s3.items, Get(cfg.exclude_q))
    IN  IF Skips(s4, cfg.limit_after) THEN s4
        ELSE QS_limit(s4.items, Get(cfg.limit_after))

\* ---------------------------------------------------------------- inputs
RECURSIVE SeqsUpTo(_, _)
SeqsUpTo(S, n) ==
    IF n = 0 THEN {<<>>}
    ELSE LET shorter == SeqsUpTo(S, n - 1)
         IN  shorter \cup {Append(s, x) : s \in shorter, x \in S}

Injective(s) == \A i, j \in 1..Len(s) : i # j => s[i] # s[j]

Sources == {s \in SeqsUpTo(Illusts, MaxLen) : Injective(s)} \cup {ScenarioSource}

Limits == {None} \cup {Some(n) : n \in -1..3}
OrderBys == {None} \cup {Some(<<k>>) : k \in OrderKeys} \cup {Some(<<"group", "-id">>)}
OptQs == {None} \cup {Some(q) : q \in Qs}

PipeConfigs ==
    [order_by : OrderBys, limit_before : Limits,
     filter_q : OptQs, exclude_q : OptQs, limit_after : Limits]

\* Upper bounds of the explored runs.
MaxWorkers == 2
MaxTasks == 5
MaxAttempts == 2

\* What the fetch source of a fetch_and_download call can return in the
\* concurrent model, and the pipelines its caller configures.
MainSources == {<<>>, <<1>>, <<3, 1>>}
NoPipe ==
    [order_by |-> None, limit_before |-> None, filter_q |-> None,
     exclude_q |-> None, limit_after |-> None]
MainPipes == {NoPipe, [NoPipe EXCEPT !.limit_after = Some(-1)]}

\* What each fetch source can return: "ranking" up to two items, "search"
\* and "bookmarks" up to one, of their own.
FetchResults(fetch_func) ==
    IF fetch_func = "search" THEN {<<>>, <<4>>}
    ELSE IF fetch_func = "bookmarks" THEN {<<>>, <<1>>}
    ELSE MainSources

\* Pages (image urls) of an illust: one download job each.
PagesOf(x) == IF x = 2 THEN 2 ELSE 1

\* ------------------------------------------------------------ FunctionCall
\* FunctionCall.__init__: the callable with its arguments.
FunctionCall(fn, args, kwargs) == [fn |-> fn, args |-> args, kwargs |-> kwargs]

\* FunctionCall.__str__ (lines 15-36). A callable is [has_name, name, repr];
\* a value is an int or a str, [t, n, s], a str being the sequence of its
\* code points, ord(c) of each character c. The strs here are of Latin-1
\* (code points 0 .. 255), without the grave accent, chr(96), which no
\* string of this notation holds.
IntVal(n) == [t |-> "int", n |-> n, s |-> <<>>]
StrVal(x) == [t |-> "str", n |-> 0, s |-> x]

Digit == <<"0", "1", "2", "3", "4", "5", "6", "7", "8", "9">>
RECURSIVE Decimal(_)
Decimal(n) ==
    IF n < 0 THEN "-" \o Decimal(0 - n)
    ELSE IF n < 10 THEN Digit[n + 1]
    ELSE Decimal(n \div 10) \o Digit[(n % 10) + 1]

\* sep.join(strs)
RECURSIVE join(_, _)
join(sep, strs) ==
    IF strs = <<>> THEN ""
    ELSE IF Len(strs) = 1 THEN strs[1]
    ELSE strs[1] \o sep \o join(sep, Tail(strs))

\* str.isprintable() of a character of Latin-1: the controls below the
\* space, DEL, the controls 0x80-0x9f, the no-break space and the soft
\* hyphen are not printable.
isprintable(cp) == (cp >= 32 /\ cp <= 126) \/ (cp >= 161 /\ cp # 173)

\* chr(cp) of a printable code point: chr(32) .. chr(126) without chr(96),
\* and chr(161) .. chr(255) without chr(173).
Ascii ==
    <<" ", "!", "\"", "#", "$", "%", "&", "'", "(", ")", "*", "+", ",", "-",
      ".", "/", "0", "1", "2", "3", "4", "5", "6", "7", "8", "9", ":", ";",
      "<", "=", ">", "?", "@", "A", "B", "C", "D", "E", "F", "G", "H", "I",
      "J", "K", "L", "M", "N", "O", "P", "Q", "R", "S", "T", "U", "V", "W",
      "X", "Y", "Z", "[", "\\", "]", "^", "_", "a", "b", "c", "d", "e", "f",
      "g", "h", "i", "j", "k", "l", "m", "n", "o", "p", "q", "r", "s", "t",
      "u", "v", "w", "x", "y", "z", "{", "|", "}", "~">>
Latin ==
    <<"¡", "¢", "£", "¤", "¥", "¦", "§", "¨", "©", "ª", "«", "¬", "®", "¯",
      "°", "±", "²", "³", "´", "µ", "¶", "·", "¸", "¹", "º", "»", "¼", "½",
      "¾", "¿", "À", "Á", "Â", "Ã", "Ä", "Å", "Æ", "Ç", "È", "É", "Ê", "Ë",
      "Ì", "Í", "Î", "Ï", "Ð", "Ñ", "Ò", "Ó", "Ô", "Õ", "Ö", "×", "Ø", "Ù",
      "Ú", "Û", "Ü", "Ý", "Þ", "ß", "à", "á", "â", "ã", "ä", "å", "æ", "ç",
      "è", "é", "ê", "ë", "ì", "í", "î", "ï", "ð", "ñ", "ò", "ó", "ô", "õ",
      "ö", "÷", "ø", "ù", "ú", "û", "ü", "ý", "þ", "ÿ">>
chr(cp) ==
    IF cp < 96 THEN Ascii[cp - 31]
    ELSE IF cp <= 126 THEN Ascii[cp - 32]
    ELSE IF cp < 173 THEN Latin[cp - 160]
    ELSE Latin[cp - 161]

\* Two lower-case hexadecimal digits.
HexDigit ==
    <<"0", "1", "2", "3", "4", "5", "6", "7", "8", "9", "a", "b", "c", "d",
      "e", "f">>
Hex2(cp) == HexDigit[(cp \div 16) + 1] \o HexDigit[(cp % 16) + 1]

\* repr() of a str puts it between single quotes (39), or between double
\* quotes (34) when it holds a single quote and no double quote.
Holds(s, cp) == \E i \in 1..Len(s) : s[i] = cp
QuoteOf(s) == IF Holds(s, 39) /\ ~Holds(s, 34) THEN 34 ELSE 39

\* ... and writes a backslash before the quote it uses and before a
\* backslash (92), \t, \n, \r for the tab (9), the newline (10) and the
\* carriage return (13), any other character that is not printable as
\* \xNN, and a printable character as it is.
Escaped(cp, quote) ==
    IF cp = quote \/ cp = 92 THEN "\\" \o chr(cp)
    ELSE IF cp = 9 THEN "\\t"
    ELSE IF cp = 10 THEN "\\n"
    ELSE IF cp = 13 THEN "\\r"
    ELSE IF ~isprintable(cp) THEN "\\x" \o Hex2(cp)
    ELSE chr(cp)

\* repr() of a value: the decimal of an int, a str quoted and escaped.
repr(v) ==
    IF v.t = "int" THEN Decimal(v.n)
    ELSE chr(QuoteOf(v.s))
            \o join("", [i \in 1..Len(v.s) |-> Escaped(v.s[i], QuoteOf(v.s))])
            \o chr(QuoteOf(v.s))

\* Lines 16-19.
function_name(fn) == IF fn.has_name THEN fn.name ELSE fn.repr

\* Line 21.
args_str(args) == join(", ", [i \in 1..Len(args) |-> repr(args[i])])

\* Lines 22-25: kwargs is the sequence of (key, value) in the dict's order.
kwargs_str(kwargs) ==
    join(", ", [i \in 1..Len(kwargs) |-> kwargs[i][1] \o "=" \o repr(kwargs[i][2])])

\* Lines 27-34: an empty string is false.
parameter_strMutant(a, k) ==
    IF a # "" /\ k # "" THEN a \o k
    ELSE IF a # "" THEN a
    ELSE IF k # "" THEN k
    ELSE ""

parameter_str(a, k) ==
    IF a # "" /\ k # "" THEN a \o ", " \o k
    ELSE IF a # "" THEN a
    ELSE IF k # "" THEN k
    ELSE ""

\* Line 36.
FunctionCall_str(self) ==
    function_name(self.fn) \o "("
        \o parameter_str(args_str(self.args), kwargs_str(self.kwargs)) \o ")"

\* The calls described: up to MaxArgs positional and keyword arguments.
MaxArgs == 2
Callables ==
    {[has_name |-> TRUE, name |-> "ranking", repr |-> "<function ranking>"],
     [has_name |-> FALSE, name |-> "", repr |-> "<Fetcher object>"]}
\* The strs: day, it's, a\", the two quotes with a newline and a form
\* feed, and a tab, ESC, DEL, a no-break space and e-acute.
Values ==
    {IntVal(7), IntVal(0 - 12), StrVal(<<100, 97, 121>>),
     StrVal(<<105, 116, 39, 115>>), StrVal(<<97, 92, 34>>),
     StrVal(<<39, 34, 10, 12>>), StrVal(<<9, 27, 127, 160, 233>>)}
Keywords == {"mode", "page"}
DescribedCalls ==
    {FunctionCall(fn, args, [i \in 1..Len(keys) |-> <<keys[i], vals[i]>>]) :
        fn \in Callables, args \in SeqsUpTo(Values, MaxArgs),
        keys \in {ks \in SeqsUpTo(Keywords, MaxArgs) : Injective(ks)},
        vals \in [1..Cardinality(Keywords) -> Values]}
NotDescribed == [done |-> FALSE, call |-> <<>>, str |-> ""]

\* Lines 128-136: None arguments become [] and {}, then fetch is built.
FetchCall(call) ==
    FunctionCall(call.fetch_func,
                 IF call.args = None THEN <<>> ELSE Get(call.args),
                 IF call.kwargs = None THEN <<>> ELSE Get(call.kwargs))

\* ------------------------------------------------------- download keywords
\* A keyword mapping is a function from its keys to values; a value is a
\* pair of what it is and which one: Python's None, the dict {'order': n},
\* an illust, a naming hint or a path of the caller.
PyNone == <<"None", 0>>
OrderInfo(n) == <<"order", n>>
EmptyDict == <<>>
DictGet(d, k) == IF k \in DOMAIN d THEN d[k] ELSE PyNone
DictSet(d, k, v) == [x \in DOMAIN d \cup {k} |-> IF x = k THEN v ELSE d[x]]

\* The **download_kwargs a caller passes to fetch_and_download.
DownloadKwargs ==
    {EmptyDict,
     [path |-> <<"path", 1>>],
     [addition_naming_info |-> PyNone],
     [addition_naming_info |-> <<"hint", 1>>],
     [path |-> <<"path", 1>>, addition_naming_info |-> <<"hint", 1>>],
     [illust |-> <<"illust", 5>>]}

\* Lines 160-165: the copy of download_kwargs with the illust and, when it
\* has no addition_naming_info, the order.
kwargs_copy(download_kwargs, order, illust) ==
    LET c == DictSet(download_kwargs, "illust", <<"illust", illust>>)
    IN  IF DictGet(c, "addition_naming_info") = PyNone
        THEN DictSet(c, "addition_naming_info", OrderInfo(order))
        ELSE c

\* Line 160: the writes of lines 161-165 go to the mapping dict.copy()
\* returned, and download_kwargs is after them what it was before.
CopyWrittenMutant(download_kwargs, written) == written

CopyWritten(download_kwargs, written) == download_kwargs

VARIABLES
    max_workers,     \* ThreadPoolExecutor(max_workers=...)
    shut,            \* the executor no longer accepts work
    nthreads,        \* worker threads started so far
    idle,            \* the executor's idle semaphore
    queue,           \* the executor's work queue: ids of pending tasks
    tasks,           \* every accepted task with its future, by id
    todo,            \* calls the with-body has yet to make, by method
    pc,              \* the caller: "body", "wait", "exit" or "left"
    body_raised,     \* the with-body was left by an exception
    propagated,      \* ... and __exit__ let it propagate
    exit_shutdowns,  \* shutdown(wait=True) calls made by __exit__
    last_shutdown,   \* the explicit shutdown that returned last
    refused_open,    \* a submission was refused by a pool not shut down
    submitting,      \* who is inside submit, the work item queued and the
                     \*     thread count not adjusted yet: 0 is the caller
    psrc, pcfg, pout,\* the pipeline on its own: source, arguments, view
    pstr             \* a FunctionCall and its str(), on its own

pvars == <<psrc, pcfg, pout, pstr>>
cvars == <<todo, pc, body_raised, propagated, exit_shutdowns, last_shutdown>>
qvars == <<max_workers, shut, nthreads, idle, queue, tasks, refused_open,
          submitting>>
vars == <<qvars, cvars, pvars>>

\* ------------------------------------------------------------------ tasks
\* The arguments of a fetch_and_download call: the fetch source with its
\* arguments ...
Signature(fetch_func) ==
    IF fetch_func = "ranking"
    THEN [fetch_func |-> "ranking", args |-> None,
          kwargs |-> Some(<< <<"mode", "day">> >>)]
    ELSE [fetch_func |-> fetch_func, args |-> Some(<<"cat">>), kwargs |-> None]
MaxTriesArgs == {None} \cup {Some(m) : m \in 0..MaxAttempts}
\* The observer, when given, is one that raises whenever it is called: one
\* that returns takes the same path through safe_callback.
Callbacks == {None, Some("raises")}
CallsOf(fetch_func, tries, callbacks, pipes, dkws) ==
    {[fetch_func |-> fetch_func, args |-> Signature(fetch_func).args,
      kwargs |-> Signature(fetch_func).kwargs,
      max_tries |-> m, submit_download_callback |-> cb, pipe |-> p,
      download_kwargs |-> d] :
        m \in tries, cb \in callbacks, p \in pipes, d \in dkws}

\* The calls of the with-body: one on a source of up to one item, with any
\* max_tries and pipeline and no observer, or one on a source of up to two
\* items, with or without observer, allowed one attempt or two.
FadCalls ==
    CallsOf("search", MaxTriesArgs, {None}, MainPipes, {EmptyDict})
    \cup CallsOf("ranking", {Some(1), Some(2)}, Callbacks, {NoPipe}, {EmptyDict})

\* A task of the pool: its work item, its future (state, result, exc) and,
\* while it runs, the locals of its frame.
Task(kind, parent, call, illust) ==
    [kind |-> kind,          \* "fad", "dl" (download) or "page"
     parent |-> parent,      \* the task that submitted it, 0 for the caller
     item |-> "queued",      \* the work item: "queued", "held" by a worker
                             \*     thread, or "dropped" by it
     state |-> "pending",    \* the future: "pending", "running", "ok", "failed"
     call |-> call,          \* fetch_and_download: its arguments
     illust |-> illust,      \* download, page: the illust
     kwargs |-> EmptyDict,   \* download: the keywords it was called with
     download_kwargs |-> call.download_kwargs,
                             \* fetch_and_download: the local download_kwargs
     tries |-> 0,            \* fetch_and_download: the loop counter
     phase |-> "fetch",      \* ... where it is: "fetch" (line 140), "fanout"
                             \*     (159), "append" (168) or "observe" (169)
     qs |-> <<>>,            \* ... the enumerated pairs of this attempt
     k |-> 0,                \* pairs consumed / pages submitted so far
     kwargs_copy |-> EmptyDict,  \* ... the local kwargs_copy
     future |-> 0,           \* fetch_and_download: the local `future`
     futures |-> <<>>,       \* fetch_and_download: the list `futures`
     fetch_calls |-> 0,      \* invocations of the fetch source
     hist |-> <<>>,          \* what each failed attempt failed on
     cb_calls |-> 0,         \* invocations of the observer
     log |-> <<>>,           \* submissions and observer calls, as they happen
     result |-> <<>>,        \* the future's result
     exc |-> None]           \* the future's exception

NoCall == [fetch_func |-> "", args |-> None, kwargs |-> None, max_tries |-> None,
           submit_download_callback |-> None, pipe |-> NoPipe,
           download_kwargs |-> EmptyDict]

Ids == DOMAIN tasks
Running == {t \in Ids : tasks[t].state = "running"}
\* The work items worker threads hold: taken off the queue, not yet dropped.
Busy == {t \in Ids : tasks[t].item = "held"}
Resolved(t) == tasks[t].state \in {"ok", "failed"}
Children(t, kind) == {c \in Ids : tasks[c].parent = t /\ tasks[c].kind = kind}
InQueue(t) == \E i \in 1..Len(queue) : queue[i] = t

\* ---------------------------------------------------------------- the pool
\* ThreadPoolExecutor._adjust_thread_count: when the idle semaphore can be
\* acquired no thread is started; otherwise one is, until max_workers
\* threads exist.
AdjustThreadCountMutant(n, sem) == [nthreads |-> n + 1, idle |-> sem]

AdjustThreadCount(n, sem) ==
    IF sem > 0 THEN [nthreads |-> n, idle |-> sem - 1]
    ELSE IF n < max_workers THEN [nthreads |-> n + 1, idle |-> sem]
    ELSE [nthreads |-> n, idle |-> sem]

\* The executor as it is.
Pool == [shut |-> shut, tasks |-> tasks, queue |-> queue]

\* ThreadPoolExecutor.submit on the executor p, up to _work_queue.put: it
\* refuses once shut down, otherwise it creates the future and queues the
\* work item. It holds the executor's lock.
SubmitTo(p, task) ==
    IF p.shut
    THEN [ok |-> FALSE, future |-> 0, tasks |-> p.tasks, queue |-> p.queue]
    ELSE [ok |-> TRUE, future |-> Len(p.tasks) + 1,
          tasks |-> Append(p.tasks, task),
          queue |-> Append(p.queue, Len(p.tasks) + 1)]

\* PixieQueen.submit.
submit(task) == SubmitTo(Pool, task)

\* The executor's lock is free: no thread is inside submit.
Unlocked == submitting = None

\* The @_submit decorator: the call becomes a task of the pool; nothing of
\* the decorated function runs in the calling thread.
SubmittedMutant(kind, parent, call, illust) ==
    IF kind = "fad"
    THEN [Task(kind, parent, call, illust) EXCEPT !.tries = 1, !.fetch_calls = 1]
    ELSE Task(kind, parent, call, illust)

Submitted(kind, parent, call, illust) == Task(kind, parent, call, illust)

\* A submitted download or _download_one_url that raises: the worker sets
\* the exception on the future submit returned for it, and nowhere else.
SetExceptionMutant(ts, t, e) ==
    [u \in DOMAIN ts |->
        IF u = t \/ u = ts[t].parent
        THEN [ts[u] EXCEPT !.state = "failed", !.exc = Some(e)]
        ELSE ts[u]]

SetException(ts, t, e) == [ts EXCEPT ![t].state = "failed", ![t].exc = Some(e)]

\* Threads joined by shutdown(wait=True): they leave once the pool is shut
\* down, the queue is drained and no thread holds a work item.
JoinedMutant == TRUE

Joined == queue = <<>> /\ Busy = {}

\* ---------------------------------------------------------------- capacity
\* The frame is in the for loop of line 159.
InLoop(r) == r.phase \in {"fanout", "append", "observe"}

\* Tasks a fan-out over the pairs ps still creates: a download and its pages.
RECURSIVE Need(_)
Need(ps) ==
    IF ps = <<>> THEN 0 ELSE 1 + PagesOf(ps[1][2]) + Need(Tail(ps))

\* Tasks that the accepted task t can still create.
Pending(t) ==
    IF tasks[t].state \notin {"pending", "running"} THEN 0
    ELSE IF tasks[t].kind = "dl" THEN PagesOf(tasks[t].illust) - tasks[t].k
    ELSE IF tasks[t].kind = "fad" /\ InLoop(tasks[t])
         THEN Need(SubSeq(tasks[t].qs, tasks[t].k + 1, Len(tasks[t].qs)))
    ELSE 0

RECURSIVE SumPending(_)
SumPending(S) ==
    IF S = {} THEN 0
    ELSE LET t == CHOOSE x \in S : TRUE IN Pending(t) + SumPending(S \ {t})

\* Tasks the run may still create within the bound.
Room == MaxTasks - Len(tasks) - SumPending(Ids)

\* ------------------------------------------------------- fetch_and_download
\* An exception as raised: it carries no fetch_call yet. Its class is
\* Exception (or below), or BaseException outside Exception (SystemExit, ...).
ExceptionClasses == {"Exception", "BaseException"}
Raise(kind, at, cls) == [kind |-> kind, at |-> at, fetch_call |-> None, cls |-> cls]
Exc(kind, at) == Raise(kind, at, "Exception")

\* Line 140: `tries` is a local of the call, counted from 1 by count().
TriesMutant(ts, t) ==
    1 + Cardinality({<<u, i>> \in (DOMAIN ts) \X (1..MaxAttempts) :
                        ts[u].kind = "fad" /\ i <= ts[u].tries})

Tries(ts, t) == ts[t].tries + 1

\* Line 174: whether the except clause goes on to the next attempt.
ContinuesOnceMore(max_tries, tries) == max_tries = None \/ tries <= Get(max_tries)

ContinuesMutant(max_tries, tries) == max_tries = None \/ tries + 1 < Get(max_tries)

Continues(max_tries, tries) == max_tries = None \/ tries < Get(max_tries)

\* Lines 177-178: the caught exception gets the fetch call and is re-raised.
ReraisedMutant(e, fetch) ==
    [kind |-> "wrapped", at |-> e.at, fetch_call |-> None, cls |-> e.cls]

Reraised(e, fetch) == [e EXCEPT !.fetch_call = Some(fetch)]

\* Lines 173-178: the exception e raised in the attempt of frame r. The
\* clause `except Exception` does not catch what is no Exception: it leaves
\* the call as it is, and the future fails with it. What is caught starts
\* the next attempt or is re-raised. The list `futures` is kept as it is.
OnException(r, e) ==
    IF e.cls # "Exception"
    THEN [r EXCEPT !.state = "failed", !.hist = Append(@, e.kind),
                   !.exc = Some(e)]
    ELSE IF Continues(r.call.max_tries, r.tries)
    THEN [r EXCEPT !.phase = "fetch", !.qs = <<>>, !.k = 0,
                   !.hist = Append(@, e.kind)]
    ELSE [r EXCEPT !.state = "failed", !.hist = Append(@, e.kind),
                   !.exc = Some(Reraised(e, FetchCall(r.call)))]

\* Lines 133-134: a given observer is wrapped by safe_callback.
WrapCallbackMutant(cb) ==
    IF cb # None THEN Some([fn |-> Get(cb), safe |-> FALSE]) ELSE None

WrapCallback(cb) ==
    IF cb # None THEN Some([fn |-> Get(cb), safe |-> TRUE]) ELSE None

\* Calling the observer: safe_callback logs what the callable raises and
\* returns; a bare callable lets it out.
CallbackRaises(w) == w.fn = "raises" /\ ~w.safe

\* Line 168: futures.append((illust, future)).
RecordedMutant(futures, illust, future) == << <<illust, future>> >> \o futures

Recorded(futures, illust, future) == Append(futures, <<illust, future>>)

\* Lines 85 and 172: download and fetch_and_download return the futures of
\* their nested jobs as they are; a task waits for no future of a job it
\* submitted.
ReturnsMutant(ts, t) ==
    \A c \in DOMAIN ts : ts[c].parent = t => ts[c].state \in {"ok", "failed"}

Returns(ts, t) == TRUE

\* Lines 142-159: the fetch and the pipeline up to enumerate(start=1).
Enumerated(src, cfg) ==
    LET v == Stages(src, cfg)
    IN  IF v.err THEN Raised ELSE View(QS_enumerate(v.items, 1))

\* ------------------------------------------------------------------ Init
Constructed(n) ==
    /\ max_workers = n
    /\ shut = FALSE
    /\ nthreads = 0
    /\ idle = 0
    /\ queue = <<>>
    /\ tasks = <<>>
    /\ refused_open = FALSE
    /\ submitting = None
    /\ pc = "body"
    /\ body_raised = FALSE
    /\ propagated = FALSE
    /\ exit_shutdowns = 0
    /\ last_shutdown = "none"

NotRun == [done |-> FALSE, err |-> FALSE, items |-> <<>>]

\* The with-body makes one fetch_and_download call.
Init ==
    /\ \E n \in 1..MaxWorkers : Constructed(n)
    /\ todo = [fetch_and_download |-> 1, download |-> 0]
    /\ psrc = <<>> /\ pcfg = NoPipe /\ pout = NotRun
    /\ pstr = NotDescribed

\* ----------------------------------------------------------- pool workers
\* _worker, work_queue.get(block=True): a thread that holds no work item
\* takes the next one off the queue. Its future is pending still.
WorkerTake(t) ==
    /\ queue # <<>> /\ t = Head(queue)
    /\ Cardinality(Busy) < nthreads
    /\ tasks' = [tasks EXCEPT ![t].item = "held"]
    /\ queue' = Tail(queue)
    /\ UNCHANGED <<max_workers, shut, nthreads, idle, refused_open,
                   submitting, cvars, pvars>>

\* _worker, work_item.run(): the thread sets the future running and calls
\* the function.
WorkerRun(t) ==
    /\ tasks[t].item = "held" /\ tasks[t].state = "pending"
    /\ tasks' = [tasks EXCEPT ![t].state = "running"]
    /\ UNCHANGED <<max_workers, shut, nthreads, idle, queue, refused_open,
                   submitting,
                   cvars, pvars>>

\* _worker, once work_item.run() has resolved the future: the thread drops
\* the work item, releases the idle semaphore and goes back to the queue.
WorkerRelease(t) ==
    /\ tasks[t].item = "held" /\ Resolved(t)
    /\ tasks' = [tasks EXCEPT ![t].item = "dropped"]
    /\ idle' = idle + 1
    /\ UNCHANGED <<max_workers, shut, nthreads, queue, refused_open,
                   submitting, cvars, pvars>>

\* One pass of the loop head and `qs = fetch()` with the pipeline stages.
FadFetch(t) ==
    /\ tasks[t].kind = "fad" /\ tasks[t].state = "running"
    /\ tasks[t].phase = "fetch"
    /\ tasks[t].tries < MaxAttempts
    /\ LET r == [tasks[t] EXCEPT !.tries = Tries(tasks, t), !.fetch_calls = @ + 1]
       IN  \/ \E cls \in ExceptionClasses :
                tasks' = [tasks EXCEPT ![t] =
                             OnException(r, Raise("fetch", r.tries, cls))]
           \/ \E src \in FetchResults(r.call.fetch_func) :
                LET v == Enumerated(src, r.call.pipe)
                IN  IF v.err
                    THEN tasks' = [tasks EXCEPT ![t] =
                                      OnException(r, Exc("stage", r.tries))]
                    ELSE /\ Need(v.items) <= Room
                         /\ tasks' = [tasks EXCEPT ![t] =
                               [r EXCEPT !.phase = "fanout", !.qs = v.items, !.k = 0]]
    /\ UNCHANGED <<max_workers, shut, nthreads, idle, queue, refused_open,
                   submitting,
                   cvars, pvars>>

\* The head of the for loop over qs.enumerate(start=1) up to line 167: the
\* next pair is produced (or the lazy query set raises), the parameters are
\* copied and the download is submitted with them; after the last pair, the
\* return of line 172, which resolves the future. A submission the executor
\* refuses raises at line 167, with the pair taken and the copy made.
FadFanOut(t) ==
    /\ tasks[t].kind = "fad" /\ tasks[t].state = "running"
    /\ tasks[t].phase = "fanout"
    /\ LET r == tasks[t]
       IN  \/ /\ \E cls \in ExceptionClasses :
                    tasks' = [tasks EXCEPT ![t] =
                                 OnException(r, Raise("enum", r.tries, cls))]
              /\ UNCHANGED <<queue, nthreads, idle, refused_open, submitting>>
           \/ /\ r.k < Len(r.qs)
              /\ Unlocked
              /\ LET order == r.qs[r.k + 1][1]
                     illust == r.qs[r.k + 1][2]
                     c == kwargs_copy(r.download_kwargs, order, illust)
                     s == submit([Submitted("dl", t, NoCall, illust)
                                     EXCEPT !.kwargs = c])
                     taken == [r EXCEPT !.k = @ + 1,
                                  !.download_kwargs = CopyWritten(@, c),
                                  !.kwargs_copy = c]
                     r1 == [taken EXCEPT !.phase = "append",
                               !.future = s.future,
                               !.log = Append(@, <<"submit", order, s.future, c>>)]
                 IN  /\ tasks' = IF s.ok THEN [s.tasks EXCEPT ![t] = r1]
                                 ELSE [tasks EXCEPT ![t] =
                                          OnException(taken,
                                                      Exc("submit", r.tries))]
                     /\ queue' = s.queue
                     /\ submitting' = IF s.ok THEN Some(t) ELSE None
                     /\ refused_open' = (refused_open \/ (~s.ok /\ ~shut))
                     /\ UNCHANGED <<nthreads, idle>>
           \/ /\ r.k = Len(r.qs)
              /\ Returns(tasks, t)
              /\ tasks' = [tasks EXCEPT ![t] =
                               [r EXCEPT !.state = "ok", !.result = r.futures]]
              /\ UNCHANGED <<queue, nthreads, idle, refused_open, submitting>>
    /\ UNCHANGED <<max_workers, shut, cvars, pvars>>

\* Line 168, once self.download has returned the future: the pair is
\* appended to `futures`; without an observer the loop goes on (line 169).
FadAppend(t) ==
    /\ tasks[t].kind = "fad" /\ tasks[t].state = "running"
    /\ tasks[t].phase = "append"
    /\ submitting # Some(t)
    /\ LET r == tasks[t]
       IN  tasks' = [tasks EXCEPT ![t] =
               [r EXCEPT !.futures = Recorded(@, r.qs[r.k][2], r.future),
                         !.phase = IF r.call.submit_download_callback = None
                                   THEN "fanout" ELSE "observe"]]
    /\ UNCHANGED <<max_workers, shut, nthreads, idle, queue, refused_open,
                   submitting,
                   cvars, pvars>>

\* Line 170: the observer is called with the future and the parameters the
\* download was submitted with.
FadObserve(t) ==
    /\ tasks[t].kind = "fad" /\ tasks[t].state = "running"
    /\ tasks[t].phase = "observe"
    /\ LET r == tasks[t]
           cb == WrapCallback(r.call.submit_download_callback)
           called == [r EXCEPT !.phase = "fanout", !.cb_calls = @ + 1,
                        !.log = Append(@, <<"observer", r.qs[r.k][1], r.future,
                                            r.kwargs_copy>>)]
       IN  tasks' = [tasks EXCEPT ![t] =
               IF CallbackRaises(Get(cb))
               THEN OnException(called, Exc("callback", r.tries))
               ELSE called]
    /\ UNCHANGED <<max_workers, shut, nthreads, idle, queue, refused_open,
                   submitting,
                   cvars, pvars>>

\* PixivPixie.download on a worker: it fails, or submits one
\* _download_one_url job per page and returns their futures.
DownloadStep(t) ==
    /\ tasks[t].kind = "dl" /\ tasks[t].state = "running"
    /\ submitting # Some(t)
    /\ LET r == tasks[t]
       IN  \/ /\ r.k = 0
              /\ tasks' = SetException(tasks, t, Exc("download", 0))
              /\ UNCHANGED <<queue, nthreads, idle, refused_open, submitting>>
           \/ /\ r.k < PagesOf(r.illust)
              /\ Unlocked
              /\ LET s == submit(Submitted("page", t, NoCall, r.illust))
                 IN  /\ tasks' = IF s.ok
                           THEN [s.tasks EXCEPT ![t] =
                                   [r EXCEPT !.k = @ + 1,
                                             !.result = Append(@, s.future)]]
                           ELSE SetException(tasks, t, Exc("submit", 0))
                     /\ queue' = s.queue
                     /\ submitting' = IF s.ok THEN Some(t) ELSE None
                     /\ refused_open' = (refused_open \/ (~s.ok /\ ~shut))
                     /\ UNCHANGED <<nthreads, idle>>
           \/ /\ r.k = PagesOf(r.illust)
              /\ Returns(tasks, t)
              /\ tasks' = [tasks EXCEPT ![t].state = "ok"]
              /\ UNCHANGED <<queue, nthreads, idle, refused_open, submitting>>
    /\ UNCHANGED <<max_workers, shut, cvars, pvars>>

\* PixivPixie._download_one_url on a worker: the page is written, or not.
PageRun(t) ==
    /\ tasks[t].kind = "page" /\ tasks[t].state = "running"
    /\ \/ tasks' = [tasks EXCEPT ![t].state = "ok"]
       \/ tasks' = SetException(tasks, t, Exc("page", 0))
    /\ UNCHANGED <<max_workers, shut, nthreads, idle, queue, refused_open,
                   submitting,
                   cvars, pvars>>

\* ---------------------------------------------------------------- caller
\* __exit__: shutdown(wait=True), then `return False`.
ExitScopeMutant(raised) ==
    /\ shut' = TRUE
    /\ exit_shutdowns' = exit_shutdowns + 1
    /\ body_raised' = raised
    /\ pc' = "left"
    /\ propagated' = raised
    /\ UNCHANGED <<todo, last_shutdown>>

ExitScope(raised) ==
    /\ shut' = TRUE
    /\ exit_shutdowns' = exit_shutdowns + 1
    /\ body_raised' = raised
    /\ pc' = "exit"
    /\ UNCHANGED <<todo, propagated, last_shutdown>>

\* A call of a decorated method from the with-body, up to the queueing of
\* the work item in submit; a refusal (RuntimeError) leaves the body.
Call(method, task) ==
    /\ pc = "body"
    /\ todo[method] > 0
    /\ Unlocked
    /\ LET s == submit(task)
       IN  /\ tasks' = s.tasks
           /\ queue' = s.queue
           /\ submitting' = IF s.ok THEN Some(0) ELSE None
           /\ refused_open' = (refused_open \/ (~s.ok /\ ~shut))
           /\ IF s.ok
              THEN /\ todo' = [todo EXCEPT ![method] = @ - 1]
                   /\ UNCHANGED <<shut, pc, body_raised, propagated,
                                  exit_shutdowns, last_shutdown>>
              ELSE ExitScope(TRUE)
    /\ UNCHANGED <<max_workers, nthreads, idle, pvars>>

\* ThreadPoolExecutor.submit from _adjust_thread_count on: the thread inside
\* submit adjusts the thread count, leaves the lock and returns the future.
SubmitReturns ==
    /\ submitting # None
    /\ LET a == AdjustThreadCount(nthreads, idle)
       IN  nthreads' = a.nthreads /\ idle' = a.idle
    /\ submitting' = None
    /\ UNCHANGED <<max_workers, shut, queue, tasks, refused_open, cvars, pvars>>

CallFetchAndDownload ==
    /\ Room >= 1
    /\ \E call \in FadCalls :
         Call("fetch_and_download", Submitted("fad", 0, call, 0))

CallDownload ==
    \E illust \in {1, 2} :
        /\ Room >= 1 + PagesOf(illust)
        /\ Call("download", Submitted("dl", 0, NoCall, illust))

\* shutdown(wait) called in the body.
CallShutdown ==
    /\ pc = "body"
    /\ Unlocked
    /\ \E wait \in BOOLEAN :
         /\ shut' = TRUE
         /\ pc' = IF wait THEN "wait" ELSE "body"
         /\ last_shutdown' = IF wait THEN last_shutdown ELSE "nowait"
    /\ UNCHANGED <<max_workers, nthreads, idle, queue, tasks, refused_open,
                   submitting, todo,
                   body_raised, propagated, exit_shutdowns, pvars>>

\* shutdown(wait=True) returns once the worker threads are joined.
ShutdownReturns ==
    /\ pc = "wait"
    /\ Joined
    /\ pc' = "body"
    /\ last_shutdown' = "wait"
    /\ UNCHANGED <<qvars, todo, body_raised, propagated, exit_shutdowns, pvars>>

\* The with-body ends, normally or by raising.
BodyEnds ==
    /\ pc = "body"
    /\ Unlocked
    /\ \E raised \in BOOLEAN : ExitScope(raised)
    /\ UNCHANGED <<max_workers, nthreads, idle, queue, tasks, refused_open,
                   submitting, pvars>>

\* __exit__ returns False after its shutdown(wait=True) returned.
ExitReturns ==
    /\ pc = "exit"
    /\ Joined
    /\ pc' = "left"
    /\ propagated' = body_raised
    /\ UNCHANGED <<qvars, todo, body_raised, exit_shutdowns, last_shutdown,
                   pvars>>

\* The scope of one fetch_and_download call, of any arguments: the body
\* makes the call and ends, and the workers run what was submitted.
Next ==
    \/ CallFetchAndDownload
    \/ BodyEnds
    \/ ExitReturns
    \/ SubmitReturns
    \/ \E t \in Ids : WorkerTake(t)
    \/ \E t \in Ids : WorkerRun(t)
    \/ \E t \in Ids : WorkerRelease(t)
    \/ \E t \in Ids : FadFetch(t)
    \/ \E t \in Ids : FadFanOut(t)
    \/ \E t \in Ids : FadAppend(t)
    \/ \E t \in Ids : FadObserve(t)
    \/ \E t \in Ids : DownloadStep(t)
    \/ \E t \in Ids : PageRun(t)

Spec == Init /\ [][Next]_vars

\* --------------------------------------------- the pool under its caller
\* The with-body makes one fetch_and_download call, or two download calls,
\* and calls shutdown as it likes.
Bodies ==
    {[fetch_and_download |-> 1, download |-> 0],
     [fetch_and_download |-> 0, download |-> 2]}

\* The call has no observer, no pipeline stage and one attempt.
PoolCalls == CallsOf("search", {Some(1)}, {None}, {NoPipe}, {EmptyDict})

InitPool ==
    /\ \E n \in 1..MaxWorkers : Constructed(n)
    /\ todo \in Bodies
    /\ psrc = <<>> /\ pcfg = NoPipe /\ pout = NotRun
    /\ pstr = NotDescribed

CallPooled ==
    /\ Room >= 1
    /\ \E call \in PoolCalls :
         Call("fetch_and_download", Submitted("fad", 0, call, 0))

NextPool ==
    \/ CallPooled
    \/ CallDownload
    \/ CallShutdown
    \/ ShutdownReturns
    \/ BodyEnds
    \/ ExitReturns
    \/ SubmitReturns
    \/ \E t \in Ids : WorkerTake(t)
    \/ \E t \in Ids : WorkerRun(t)
    \/ \E t \in Ids : WorkerRelease(t)
    \/ \E t \in Ids : FadFetch(t)
    \/ \E t \in Ids : FadFanOut(t)
    \/ \E t \in Ids : FadAppend(t)
    \/ \E t \in Ids : DownloadStep(t)
    \/ \E t \in Ids : PageRun(t)

SpecPool == InitPool /\ [][NextPool]_vars

\* ------------------------------------------- nested submission, scheduled
\* The with-body calls fetch_and_download, with max_tries 1 or 2 and no
\* observer; the pool is not shut down meanwhile.
NestedCalls == CallsOf("ranking", {Some(1), Some(2)}, {None}, {NoPipe}, {EmptyDict})

InitNested ==
    /\ \E n \in 1..MaxWorkers : Constructed(n)
    /\ todo = [fetch_and_download |-> 1, download |-> 0]
    /\ psrc = <<>> /\ pcfg = NoPipe /\ pout = NotRun
    /\ pstr = NotDescribed

CallNested ==
    /\ Room >= 1
    /\ \E call \in NestedCalls :
         Call("fetch_and_download", Submitted("fad", 0, call, 0))

NextNested ==
    \/ CallNested
    \/ SubmitReturns
    \/ \E t \in Ids : WorkerTake(t)
    \/ \E t \in Ids : WorkerRun(t)
    \/ \E t \in Ids : WorkerRelease(t)
    \/ \E t \in Ids : FadFetch(t)
    \/ \E t \in Ids : FadFanOut(t)
    \/ \E t \in Ids : FadAppend(t)
    \/ \E t \in Ids : DownloadStep(t)
    \/ \E t \in Ids : PageRun(t)

\* The worker threads run: a thread that can take a work item takes one, and
\* a thread that holds one takes its next step. Nothing is asked of the
\* caller.
Work(t) ==
    /\ t \in Ids
    /\ \/ WorkerRun(t) \/ WorkerRelease(t)
       \/ FadFetch(t) \/ FadFanOut(t) \/ FadAppend(t)
       \/ DownloadStep(t) \/ PageRun(t)

FairWorkers ==
    /\ WF_vars(SubmitReturns)
    /\ WF_vars(\E t \in Ids : WorkerTake(t))
    /\ \A t \in 1..MaxTasks : WF_vars(Work(t))

SpecNested == InitNested /\ [][NextNested]_vars /\ FairWorkers

\* ------------------------------------------ two calls running side by side
\* The with-body calls fetch_and_download twice, on two fetch sources: the
\* first call with max_tries 1 or 2, the second with one attempt.
ConcurrentCalls(fetch_func) ==
    CallsOf(fetch_func, IF fetch_func = "search" THEN {Some(1)} ELSE {Some(1), Some(2)},
            {None}, {NoPipe}, {EmptyDict})

InitConcurrent ==
    /\ \E n \in 1..MaxWorkers : Constructed(n)
    /\ todo = [fetch_and_download |-> 2, download |-> 0]
    /\ psrc = <<>> /\ pcfg = NoPipe /\ pout = NotRun
    /\ pstr = NotDescribed

CallConcurrent ==
    /\ Room >= 1
    /\ \E call \in ConcurrentCalls(IF todo.fetch_and_download = 2
                                     THEN "bookmarks" ELSE "search") :
         Call("fetch_and_download", Submitted("fad", 0, call, 0))

\* The two calls, given no observer, and the workers running them and the
\* downloads they submit; the pool is not shut down meanwhile.
NextConcurrent ==
    \/ CallConcurrent
    \/ SubmitReturns
    \/ \E t \in Ids : WorkerTake(t)
    \/ \E t \in Ids : WorkerRun(t)
    \/ \E t \in Ids : WorkerRelease(t)
    \/ \E t \in Ids : FadFetch(t)
    \/ \E t \in Ids : FadFanOut(t)
    \/ \E t \in Ids : FadAppend(t)
    \/ \E t \in Ids : DownloadStep(t)
    \/ \E t \in Ids : PageRun(t)

SpecConcurrent == InitConcurrent /\ [][NextConcurrent]_vars

\* ------------------------------------------------- the pipeline on its own
\* Lines 144-159 read the fetched query set and the five arguments and write
\* the local qs only: they are a function of these, applied here to every
\* source and every combination of arguments.
InitPipe ==
    /\ Constructed(1)
    /\ todo = [fetch_and_download |-> 0, download |-> 0]
    /\ psrc \in Sources /\ pcfg \in PipeConfigs /\ pout = NotRun
    /\ pstr = NotDescribed

PipelineApplied ==
    /\ ~pout.done
    /\ LET v == Enumerated(psrc, pcfg)
       IN  pout' = [done |-> TRUE, err |-> v.err, items |-> v.items]
    /\ UNCHANGED <<psrc, pcfg, pstr, qvars, cvars>>

NextPipe == PipelineApplied

SpecPipe == InitPipe /\ [][NextPipe]_vars

\* ----------------------------------------- the call with download keywords
\* The with-body makes one fetch_and_download call with **download_kwargs,
\* an observer and one attempt.
KwargsPipes == {NoPipe, [NoPipe EXCEPT !.order_by = Some(<<"id">>)]}
KwargsCalls ==
    CallsOf("ranking", {Some(1)}, {Some("raises")}, KwargsPipes, DownloadKwargs)

InitKwargs ==
    /\ \E n \in 1..MaxWorkers : Constructed(n)
    /\ todo = [fetch_and_download |-> 1, download |-> 0]
    /\ psrc = <<>> /\ pcfg = NoPipe /\ pout = NotRun
    /\ pstr = NotDescribed

CallKwargs ==
    /\ Room >= 1
    /\ \E call \in KwargsCalls :
         Call("fetch_and_download", Submitted("fad", 0, call, 0))

NextKwargs ==
    \/ CallKwargs
    \/ SubmitReturns
    \/ \E t \in Ids : WorkerTake(t)
    \/ \E t \in Ids : WorkerRun(t)
    \/ \E t \in Ids : WorkerRelease(t)
    \/ \E t \in Ids : FadFetch(t)
    \/ \E t \in Ids : FadFanOut(t)
    \/ \E t \in Ids : FadAppend(t)
    \/ \E t \in Ids : FadObserve(t)
    \/ \E t \in Ids : DownloadStep(t)
    \/ \E t \in Ids : PageRun(t)

SpecKwargs == InitKwargs /\ [][NextKwargs]_vars

\* ------------------------------------------------ str() of a FunctionCall
InitStr ==
    /\ Constructed(1)
    /\ todo = [fetch_and_download |-> 0, download |-> 0]
    /\ psrc = <<>> /\ pcfg = NoPipe /\ pout = NotRun
    /\ \E call \in DescribedCalls :
         pstr = [done |-> FALSE, call |-> call, str |-> ""]

StrCalled ==
    /\ ~pstr.done
    /\ pstr' = [pstr EXCEPT !.done = TRUE, !.str = FunctionCall_str(pstr.call)]
    /\ UNCHANGED <<psrc, pcfg, pout, qvars, cvars>>

NextStr == StrCalled

SpecStr == InitStr /\ [][NextStr]_vars

\* ============================================================== properties
Fads == {t \in Ids : tasks[t].kind = "fad"}
OnlyFetchFailed(t) == \A i \in 1..Len(tasks[t].hist) : tasks[t].hist[i] = "fetch"
\* The call was left by an exception that is no Exception.
Interrupted(t) == tasks[t].exc # None /\ Get(tasks[t].exc).cls # "Exception"
Range(s) == {s[i] : i \in 1..Len(s)}

\* C1: when the fetch source fails (raises an Exception) on its first k
\* invocations and succeeds on invocation k+1 and max_tries = k+1 (nothing
\* else failing), the future does not fail: the attempt k+1 is made, it is
\* the last one, and the future resolves with a result after exactly k+1
\* invocations.
C1_RetryThenSuccess ==
    \A t \in Fads :
        LET r == tasks[t]
            k == Len(r.hist)
        IN  (r.call.max_tries # None /\ OnlyFetchFailed(t) /\ ~Interrupted(t)) =>
              /\ (k < Get(r.call.max_tries) => r.state # "failed")
              /\ (Get(r.call.max_tries) = k + 1 /\ InLoop(r)
                    => r.state \in {"running", "ok"} /\ r.fetch_calls = k + 1)

C1_Witness ==
    \E t \in Fads :
        /\ tasks[t].state = "ok" /\ tasks[t].hist = <<"fetch">>
        /\ tasks[t].call.max_tries = Some(2) /\ tasks[t].fetch_calls = 2
        /\ Len(tasks[t].result) = 2

\* C2: when every invocation of the fetch source fails (raises an Exception)
\* and max_tries = k >= 1, the source is invoked k times and no more, and the
\* future then fails with the exception of the last invocation itself,
\* carrying as fetch_call the FunctionCall of fetch_func, args and kwargs.
C2_ExhaustedReraises ==
    \A t \in Fads :
        LET r == tasks[t]
            c == r.call
        IN  (c.max_tries # None /\ Get(c.max_tries) >= 1 /\ OnlyFetchFailed(t)
             /\ ~Interrupted(t) /\ Len(r.hist) = r.fetch_calls) =>
              /\ r.fetch_calls <= Get(c.max_tries)
              /\ (r.fetch_calls < Get(c.max_tries) => ~Resolved(t))
              /\ (r.fetch_calls = Get(c.max_tries) =>
                    /\ r.state = "failed"
                    /\ r.exc = Some([kind |-> "fetch", at |-> Get(c.max_tries),
                                     cls |-> "Exception",
                                     fetch_call |-> Some(
                                        [fn |-> c.fetch_func,
                                         args |-> IF c.args = None THEN <<>>
                                                  ELSE c.args[1],
                                         kwargs |-> IF c.kwargs = None THEN <<>>
                                                    ELSE c.kwargs[1]])]))

C2_Witness ==
    \E t \in Fads :
        /\ tasks[t].state = "failed" /\ tasks[t].hist = <<"fetch", "fetch">>
        /\ tasks[t].call.max_tries = Some(2) /\ tasks[t].fetch_calls = 2

\* C3: a fetch_and_download future that resolved successfully, after any
\* failed attempts, has submitted exactly as many download jobs as the
\* successful attempt's pipeline yielded (N), and its result has N entries,
\* one per yielded item.
C3_ExactlyNDownloads ==
    \A t \in Fads :
        tasks[t].state = "ok" =>
            /\ Cardinality(Children(t, "dl")) = Len(tasks[t].qs)
            /\ Len(tasks[t].result) = Len(tasks[t].qs)
            /\ \A i \in 1..Len(tasks[t].qs) :
                   tasks[t].result[i][1] = tasks[t].qs[i][2]

\* -------------------------------------------------- pipeline properties
\* The items of a source in the order order_by asks for, said without
\* sorting: x stands at the place that counts the items going before it.
Position(s, x) == CHOOSE i \in 1..Len(s) : s[i] = x
GoesBefore(keys, s, y, x) ==
    \/ Before(keys, y, x)
    \/ ~Before(keys, x, y) /\ Position(s, y) < Position(s, x)
Ordered(s, order_by) ==
    IF order_by = None THEN s
    ELSE [i \in 1..Len(s) |->
            CHOOSE x \in Range(s) :
                Cardinality({y \in Range(s) : GoesBefore(Get(order_by), s, y, x)})
                    = i - 1]
FirstN(s, limit) == IF limit = None THEN s ELSE SubSeq(s, 1, Min(Get(limit), Len(s)))
Passes(cfg, x) ==
    /\ cfg.filter_q = None \/ EvalQ(Get(cfg.filter_q), x)
    /\ cfg.exclude_q = None \/ ~EvalQ(Get(cfg.exclude_q), x)
Numbered(s) == [i \in 1..Len(s) |-> <<i, s[i]>>]

ScenarioConfig ==
    [NoPipe EXCEPT !.limit_before = Some(3), !.exclude_q = Some("isC"),
                   !.limit_after = Some(2)]

\* C4: a successful attempt enumerates, numbered 1, 2, ..., the first
\* limit_after of the items passing the configured predicates among the first
\* limit_before items of the ordered source; [A,B,C,D,E] with limit_before=3,
\* exclude(isC), limit_after=2 gives [(1,A),(2,B)].
C4_PipelineOrder ==
    (pout.done /\ ~pout.err) =>
        /\ pout.items =
             Numbered(FirstN(SelectSeq(FirstN(Ordered(psrc, pcfg.order_by),
                                              pcfg.limit_before),
                                       LAMBDA x : Passes(pcfg, x)),
                             pcfg.limit_after))
        /\ (psrc = ScenarioSource /\ pcfg = ScenarioConfig
              => pout.items = << <<1, 1>>, <<2, 2>> >>)

C4_Witness ==
    /\ pout.done /\ psrc = ScenarioSource /\ pcfg = ScenarioConfig
    /\ pout.items = << <<1, 1>>, <<2, 2>> >>

\* C5: with both filter_q and exclude_q given, the exclude is skipped: the
\* items are those obtained with filter_q alone.
C5_FilterWins ==
    (pout.done /\ pcfg.filter_q # None /\ pcfg.exclude_q # None) =>
        LET alone == Enumerated(psrc, [pcfg EXCEPT !.exclude_q = None])
        IN  pout.err = alone.err /\ pout.items = alone.items

\* --------------------------------------------------------------------------
\* C6: an observer that raises on every call stops no download from being
\* submitted, causes no retry, and its failure never reaches the future:
\* with nothing else failing the future resolves with all N entries. (The
\* observer has been called for every download submitted but the one the
\* loop is handling.)
C6_ObserverIsolated ==
    \A t \in Fads :
        LET r == tasks[t]
        IN  r.call.submit_download_callback = Some("raises") =>
              /\ "callback" \notin Range(r.hist)
              /\ (r.exc # None => Get(r.exc).kind # "callback")
              /\ r.cb_calls = Cardinality(Children(t, "dl"))
                    - (IF r.phase \in {"append", "observe"} THEN 1 ELSE 0)
              /\ (r.hist = <<>> /\ InLoop(r) =>
                    /\ r.state \in {"running", "ok"}
                    /\ Cardinality(Children(t, "dl")) = r.k
                    /\ (r.state = "ok" => Len(r.result) = Len(r.qs)))

C6_Witness ==
    \E t \in Fads :
        /\ tasks[t].call.submit_download_callback = Some("raises")
        /\ tasks[t].state = "ok" /\ tasks[t].hist = <<>>
        /\ Len(tasks[t].result) = 2 /\ tasks[t].cb_calls = 2

\* C7: a download or fetch_and_download call only queues a task: as long as
\* no worker has taken the task and set its future running, nothing of it has
\* run (no fetch, no pipeline stage, no nested submission).
C7_OnlyEnqueued ==
    \A t \in Ids :
        tasks[t].state = "pending" =>
            /\ InQueue(t) \/ tasks[t].item = "held"
            /\ tasks[t].tries = 0 /\ tasks[t].fetch_calls = 0
            /\ tasks[t].phase = "fetch" /\ tasks[t].qs = <<>> /\ tasks[t].k = 0
            /\ tasks[t].futures = <<>> /\ tasks[t].cb_calls = 0
            /\ \A c \in Ids : tasks[c].parent # t

C7_Witness ==
    /\ pc = "body"
    /\ \E t \in Fads : tasks[t].state = "pending" /\ tasks[t].parent = 0

\* C8: at most max_workers tasks execute at a time (each is held by a
\* worker thread of its own); the others wait in the queue, and a pool that
\* is not shut down refuses none.
C8_BoundedWorkers ==
    /\ Cardinality(Running) <= Cardinality(Busy)
    /\ Cardinality(Busy) <= nthreads
    /\ nthreads <= max_workers
    /\ ~refused_open
    /\ \A t \in Ids :
          /\ tasks[t].state = "running" => tasks[t].item = "held"
          /\ tasks[t].item = "queued" <=> InQueue(t)
          /\ tasks[t].item = "queued" => tasks[t].state = "pending"
          /\ tasks[t].item = "dropped" => Resolved(t)

C8_Witness ==
    /\ max_workers = 2 /\ Cardinality(Running) = 2 /\ Len(queue) >= 2
    /\ ~shut /\ Fads = {}

\* C9: shutdown(wait=True) returns only when every task has its future
\* resolved; a shutdown, waiting or not, drops no accepted task: what is not
\* resolved is held by a worker thread or stays queued for them.
C9_ShutdownWaits ==
    /\ last_shutdown = "wait" => \A t \in Ids : Resolved(t)
    /\ shut => /\ \A t \in Ids :
                     ~Resolved(t) => InQueue(t) \/ tasks[t].item = "held"
               /\ queue # <<>> => nthreads >= 1

C9_Witness ==
    /\ last_shutdown = "wait" /\ pc = "body"
    /\ Len(tasks) >= 3
    /\ \E t \in Ids : tasks[t].state = "failed"

\* C10: leaving the with-scope, normally or by an exception, calls
\* shutdown(wait=True) once and lets the exception through; once the scope
\* is left every future is resolved and no worker runs.
C10_ScopeExit ==
    /\ pc \in {"exit", "left"} => exit_shutdowns = 1 /\ shut
    /\ pc \in {"body", "wait"} => exit_shutdowns = 0
    /\ pc = "left" =>
          /\ propagated = body_raised
          /\ \A t \in Ids : Resolved(t)
          /\ Running = {} /\ Busy = {} /\ queue = <<>>

C10_Witness ==
    /\ pc = "left" /\ body_raised /\ propagated
    /\ Len(tasks) >= 3

\* C11: a negative limit_before or limit_after fails fast: the attempt in
\* which the limit stage raises is the last one (also with max_tries None),
\* the fetch source is not invoked again, and the future fails with the
\* error of the limit stage.
C11_FailsFast ==
    \A t \in Fads :
        LET r == tasks[t]
        IN  \A i \in 1..Len(r.hist) :
                r.hist[i] = "stage" =>
                    /\ i = Len(r.hist) /\ r.fetch_calls = i
                    /\ r.state = "failed"
                    /\ r.exc # None /\ Get(r.exc).kind = "stage"

\* C12: download and the observer are passed, for each pair (order, item), a
\* mapping with the entries of the caller's download_kwargs, illust set to
\* the item, and addition_naming_info set to {order: order} only when the
\* caller gave none (a given one is passed as it is to every item); the
\* caller's download_kwargs is unchanged by the loop.
C12_FreshParams ==
    \A t \in Fads :
        LET r == tasks[t]
            kw == r.call.download_kwargs
            given == "addition_naming_info" \in DOMAIN kw
                     /\ kw["addition_naming_info"] # PyNone
        IN  /\ r.download_kwargs = kw
            /\ \A i \in 1..Len(r.log) :
                  LET e == r.log[i]
                      passed == e[4]
                  IN  /\ DOMAIN passed
                            = DOMAIN kw \cup {"illust", "addition_naming_info"}
                      /\ passed["illust"] = <<"illust", r.qs[e[2]][2]>>
                      /\ passed["addition_naming_info"] =
                            IF given THEN kw["addition_naming_info"]
                            ELSE OrderInfo(e[2])
                      /\ \A k \in DOMAIN kw \ {"illust", "addition_naming_info"} :
                            passed[k] = kw[k]
                      /\ e[1] = "submit" => tasks[e[3]].kwargs = passed
                      /\ e[1] = "observer" =>
                            /\ r.log[i - 1][1] = "submit"
                            /\ r.log[i - 1][3] = e[3]
                            /\ r.log[i - 1][4] = passed

C12_Witness ==
    \E t \in Fads :
        /\ tasks[t].state = "ok"
        /\ tasks[t].call.download_kwargs = [path |-> <<"path", 1>>]
        /\ Len(tasks[t].log) = 4
        /\ tasks[t].log[4][1] = "observer"
        /\ tasks[t].log[4][4]["addition_naming_info"] = OrderInfo(2)
        /\ tasks[t].log[4][4]["illust"] = <<"illust", 1>>
        /\ tasks[tasks[t].log[3][3]].kwargs = tasks[t].log[4][4]

\* The call ended at line 167: the executor refused the download of the
\* pair it had taken last.
Refused(r) ==
    /\ r.state = "failed" /\ InLoop(r)
    /\ r.hist # <<>> /\ r.hist[Len(r.hist)] = "submit"

\* C13: within one fetch_and_download the downloads are submitted in the
\* order of enumeration (the job of the item numbered i before the job of the
\* item numbered i+1, the observer called for item i between the two), and
\* the list `futures`, which is what is returned, holds the (item, future)
\* pairs in the order of submission, each future being the one created for
\* its item. Every pair taken from the enumeration has its job, but for the
\* last one when the executor refused it, which ends the attempt.
C13_SubmissionOrder ==
    \A t \in Fads :
        LET r == tasks[t]
            n == Len(r.futures)
            observed == r.call.submit_download_callback # None
            \* downloads submitted: those recorded and the one of line 167
            m == n + (IF r.phase = "append" THEN 1 ELSE 0)
            future(j) == IF j <= n THEN r.futures[j][2] ELSE r.future
            item(j) == IF j <= n THEN r.futures[j][1] ELSE r.qs[r.k][2]
            calls == IF ~observed THEN 0
                     ELSE n - (IF r.phase = "observe" THEN 1 ELSE 0)
            at(j) == IF observed THEN 2 * j - 1 ELSE j
            \* pairs of this attempt whose download was submitted
            sent == r.k - (IF Refused(r) THEN 1 ELSE 0)
        IN  /\ {future(j) : j \in 1..m} = Children(t, "dl")
            /\ \A j \in 1..m :
                  /\ tasks[future(j)].illust = item(j)
                  /\ \A i \in 1..(j - 1) : future(i) < future(j)
            /\ InLoop(r) =>
                  /\ r.k <= Len(r.qs)
                  /\ sent >= 0 /\ sent <= m
                  /\ \A i \in 1..r.k : r.qs[i][1] = i
                  /\ \A i \in 1..sent :
                        /\ item(m - sent + i) = r.qs[i][2]
                        /\ r.log[at(m - sent + i)][2] = r.qs[i][1]
            /\ r.cb_calls = calls
            /\ Len(r.log) = m + calls
            /\ \A j \in 1..m :
                  /\ r.log[at(j)][1] = "submit"
                  /\ r.log[at(j)][3] = future(j)
            /\ \A j \in 1..calls :
                  /\ r.log[2 * j][1] = "observer"
                  /\ r.log[2 * j][2] = r.log[at(j)][2]
                  /\ r.log[2 * j][3] = future(j)
            /\ r.state = "ok" => r.result = r.futures

C13_Witness ==
    \E t \in Fads :
        /\ tasks[t].state = "ok" /\ tasks[t].hist = <<>>
        /\ tasks[t].call.submit_download_callback # None
        /\ Len(tasks[t].result) = 2
        /\ tasks[t].result[1][1] = 3 /\ tasks[t].result[2][1] = 1
        /\ Len(tasks[t].log) = 4 /\ tasks[t].log[3][1] = "submit"

\* C14: a download job or a page job that fails changes its own future and
\* nothing else: the fetch_and_download that submitted it keeps its outcome
\* and its try counter, every other task and the queue are as they were; no
\* attempt of a fetch_and_download was ever caused by a download's failure.
C14_FailureConfined ==
    /\ [](\A t \in Fads :
            LET r == tasks[t]
            IN  /\ \A i \in 1..Len(r.hist) : r.hist[i] \notin {"download", "page"}
                /\ r.exc # None => Get(r.exc).kind \notin {"download", "page"}
                /\ r.tries = Len(r.hist)
                      + (IF InLoop(r) /\ r.state # "failed" THEN 1 ELSE 0))
    /\ [][\A t \in Ids :
            (tasks[t].kind \in {"dl", "page"} /\ ~Resolved(t)
             /\ tasks'[t].state = "failed") =>
                /\ Len(tasks') = Len(tasks)
                /\ \A u \in Ids \ {t} : tasks'[u] = tasks[u]
                /\ queue' = queue /\ nthreads' = nthreads /\ shut' = shut]_vars

C14_Witness ==
    \E t \in Fads :
        /\ tasks[t].state = "ok" /\ tasks[t].hist = <<>> /\ tasks[t].fetch_calls = 1
        /\ Len(tasks[t].result) = 2
        /\ tasks[tasks[t].result[1][2]].state = "failed"
        /\ tasks[tasks[t].result[2][2]].state = "ok"
        /\ \E p \in Children(tasks[t].result[2][2], "page") : tasks[p].state = "ok"

\* C15: of two fetch_and_download calls running side by side on one
\* PixieQueen, each holds in its list only futures of downloads it submitted
\* itself (all of them, but the one it is about to append), for items of its
\* own fetch source, and each counts in `tries` its own attempts only: unless
\* it is left by what is no Exception, it fails only when its own failed
\* attempts have used up its own max_tries.
C15_NoInterference ==
    \A t \in Fads :
        LET r == tasks[t]
            own == UNION {Range(src) : src \in FetchResults(r.call.fetch_func)}
        IN  /\ {r.futures[j][2] : j \in 1..Len(r.futures)}
                    \cup (IF r.phase = "append" THEN {r.future} ELSE {})
                  = Children(t, "dl")
            /\ \A j \in 1..Len(r.futures) :
                  /\ r.futures[j][1] \in own
                  /\ tasks[r.futures[j][2]].illust = r.futures[j][1]
            /\ r.tries = r.fetch_calls
            /\ r.tries = Len(r.hist)
                  + (IF InLoop(r) /\ r.state # "failed" THEN 1 ELSE 0)
            /\ r.tries <= Get(r.call.max_tries)
            /\ Interrupted(t) => r.state = "failed"
            /\ ~Interrupted(t) =>
                  (r.state = "failed" <=> Len(r.hist) = Get(r.call.max_tries))

C15_Witness ==
    /\ Len(tasks) = 5
    /\ tasks[1].call.fetch_func = "bookmarks" /\ tasks[1].call.max_tries = Some(2)
    /\ tasks[1].hist = <<"fetch">> /\ tasks[1].state = "ok"
    /\ tasks[1].result = << <<1, 2>> >> /\ tasks[2].state = "failed"
    /\ tasks[3].kind = "fad" /\ tasks[3].call.fetch_func = "search"
    /\ tasks[3].state = "ok" /\ tasks[3].result = << <<4, 4>> >>
    /\ tasks[5].parent = 4 /\ tasks[5].state = "ok"

\* The description's parts: the repr of each positional argument, then
\* key=repr(value) of each keyword argument in order.
Parts(call) ==
    [i \in 1..(Len(call.args) + Len(call.kwargs)) |->
        IF i <= Len(call.args) THEN repr(call.args[i])
        ELSE call.kwargs[i - Len(call.args)][1] \o "="
                \o repr(call.kwargs[i - Len(call.args)][2])]

\* C16 as stated: the description is the callable's name, then "(", the
\* parts joined by ", ", and ")"; with no argument at all the parentheses
\* are left out and the description is the name alone.
C16_NameAloneWhenNoArgs ==
    pstr.done =>
        pstr.str = IF Parts(pstr.call) = <<>> THEN function_name(pstr.call.fn)
                   ELSE function_name(pstr.call.fn) \o "("
                            \o join(", ", Parts(pstr.call)) \o ")"

\* C16, amended: the description is always the callable's name, then "(",
\* the parts joined by ", ", and ")"; with no argument at all it is the name
\* followed by "()".
C16_Description ==
    pstr.done =>
        /\ pstr.str = function_name(pstr.call.fn) \o "("
                          \o join(", ", Parts(pstr.call)) \o ")"
        /\ (pstr.call.args = <<>> /\ pstr.call.kwargs = <<>> /\ pstr.call.fn.has_name
              => pstr.str = pstr.call.fn.name \o "()")

C16_Witness ==
    /\ pstr.done
    /\ pstr.call.args = <<IntVal(7), StrVal(<<105, 116, 39, 115>>)>>
    /\ pstr.call.kwargs = << <<"page", StrVal(<<97, 92, 34>>)>>,
                            <<"mode", StrVal(<<100, 97, 121>>)>> >>
    /\ pstr.str = "ranking(7, \"it's\", page='a\\\\\"', mode='day')"

\* C17: a shutdown leaves an accepted fetch_and_download unaffected: when
\* its fetch source and pipeline do not fail, no attempt of it fails, and its
\* future resolves with one download per yielded item.
C17_ShutdownUnaffected ==
    \A t \in Fads :
        LET r == tasks[t]
        IN  (shut /\ \A i \in 1..Len(r.hist) :
                        r.hist[i] \notin {"fetch", "stage", "enum"}) =>
              /\ r.hist = <<>>
              /\ r.state # "failed"
              /\ r.state = "ok" =>
                    /\ Len(r.result) = Len(r.qs)
                    /\ Cardinality(Children(t, "dl")) = Len(r.qs)

\* C18 as stated: with max_tries = m, for any m >= 0, the fetch source is
\* invoked at most m times, whatever the attempts fail on.
C18_AtMostMaxTries ==
    \A t \in Fads :
        tasks[t].call.max_tries # None =>
            tasks[t].fetch_calls <= Get(tasks[t].call.max_tries)

\* C18, amended: with max_tries = m >= 1 the fetch source is invoked at most
\* m times, whatever the attempts fail on; with max_tries = 0 it is invoked
\* once, as the first attempt is made before max_tries is looked at.
C18_AtMostMaxTriesOrOnce ==
    \A t \in Fads :
        LET r == tasks[t]
            m == Get(r.call.max_tries)
        IN  r.call.max_tries # None =>
              /\ m >= 1 => r.fetch_calls <= m
              /\ m = 0 => r.fetch_calls <= 1
              /\ (m = 0 /\ r.state = "running" /\ r.phase = "fetch") => r.fetch_calls = 0
              /\ Resolved(t) => r.fetch_calls >= 1

C18_Witness ==
    \E t \in Fads :
        /\ tasks[t].call.max_tries = Some(2) /\ tasks[t].state = "failed"
        /\ tasks[t].hist = <<"fetch", "enum">> /\ tasks[t].fetch_calls = 2

\* C19: with every fetch_and_download given a finite max_tries, on any
\* number of workers from 1 on, every future a call returned is eventually
\* resolved when the worker threads run: a running task only queues its
\* nested jobs and never waits for them. (A resolved future stays resolved
\* and accepted tasks stay accepted: that all accepted tasks are resolved
\* again and again says that each of them is resolved eventually.)
C19_EveryFutureResolves ==
    []<>(\A t \in Ids : Resolved(t))

C19_Witness ==
    /\ max_workers = 1 /\ nthreads = 1
    /\ \A t \in Ids : Resolved(t)
    /\ \E t \in Fads :
          /\ tasks[t].call.max_tries # None /\ tasks[t].state = "ok"
          /\ \E c \in Children(t, "dl") :
                tasks[c].state = "ok" /\ Children(c, "page") # {}

\* C20: a fetch_and_download future fails only before any fan-out: when it
\* has failed, the invocation has submitted no download and has not called
\* the observer.
C20_FailedBeforeFanOut ==
    \A t \in Fads :
        tasks[t].state = "failed" =>
            /\ Children(t, "dl") = {}
            /\ tasks[t].futures = <<>>
            /\ tasks[t].cb_calls = 0

====
